---- MODULE Spec2Model ----
(***************************************************************************)
(* Model of osmnx/stats.py: geometric and topological measures of a street *)
(* network.  Every function of the module is a pure function of a graph;   *)
(* the state is the graph under measurement, the last call made on it and  *)
(* what that call returned, raised, warned and logged.                     *)
(*                                                                         *)
(* Python ints are TLA+ integers.  Python floats are exact rationals       *)
(* [kind, num, den]; the kinds "inf", "nan" and "None" are the non-finite  *)
(* numpy results and Python's None where a float is expected.              *)
(***************************************************************************)
EXTENDS Integers, Sequences, FiniteSets, TLC

VARIABLES G, call, ret

vars == <<G, call, ret>>

(***************************************************************************)
(* Bounds of the model                                                     *)
(***************************************************************************)
MaxNodes == 3        \* node identifiers 1..MaxNodes (street-count graphs)
MaxStreets == 3      \* street_count values 0..MaxStreets
MaxEdges == 2        \* edges of a graph

\* the node identifiers of the graphs whose edges and geometry are measured
GeomNodes == {1, 2}
\* edge lengths in metres
Lengths == {0, 50, 100}
\* node coordinates (x, y); nan marks a not-a-number coordinate
Pt(x, y) == [x |-> x, y |-> y, nan |-> FALSE]
NaNPt == [x |-> 0, y |-> 0, nan |-> TRUE]
Points == {Pt(0, 0), Pt(3, 4), NaNPt}

(***************************************************************************)
(* Optional arguments and values                                           *)
(***************************************************************************)
None == [some |-> FALSE, v |-> 0]
NoneBool == [some |-> FALSE, v |-> FALSE]
NoneStr == [some |-> FALSE, v |-> ""]
Some(v) == [some |-> TRUE, v |-> v]

RECURSIVE GCD(_, _)
GCD(a, b) == IF b = 0 THEN a ELSE GCD(b, a % b)

Abs(a) == IF a < 0 THEN -a ELSE a

\* a finite float, as the reduced fraction n/d (d # 0)
Float(n, d) ==
    LET g == GCD(Abs(n), Abs(d))
        s == IF d < 0 THEN -1 ELSE 1
    IN  [kind |-> "float", num |-> s * (n \div g), den |-> s * (d \div g)]

Inf == [kind |-> "inf", num |-> 1, den |-> 0]
NaN == [kind |-> "nan", num |-> 0, den |-> 0]
FloatNone == [kind |-> "None", num |-> 0, den |-> 0]

(***************************************************************************)
(* Outcome of a call: a returned value or a raised exception, with the     *)
(* messages it passed to utils.log(level=WARN) and warnings.warn           *)
(***************************************************************************)
Ok(v, msgs) == [status |-> "ok", exc |-> "", value |-> v, msgs |-> msgs]
Raise(e, msgs) == [status |-> "raise", exc |-> e, value |-> 0, msgs |-> msgs]
NoCall == [op |-> "none"]
NoRet == [status |-> "none", exc |-> "", value |-> 0, msgs |-> <<>>]

\* Python's a / b on two ints (true division)
PyDiv(a, b, msgs) ==
    IF b = 0 THEN Raise("ZeroDivisionError", msgs) ELSE Ok(Float(a, b), msgs)

RECURSIVE SumOver(_, _)
SumOver(f, S) ==
    IF S = {} THEN 0
    ELSE LET e == CHOOSE e \in S : TRUE IN f[e] + SumOver(f, S \ {e})

RECURSIVE SetMax(_)
SetMax(S) ==
    LET e == CHOOSE e \in S : TRUE
    IN  IF S = {e} THEN e
        ELSE LET r == SetMax(S \ {e}) IN IF e > r THEN e ELSE r

(***************************************************************************)
(* Per-node street counts                                                  *)
(***************************************************************************)
StaleMsg == "WARN: Graph nodes changed since street_counts were calculated"

\* nx.get_node_attributes(G, "street_count"): the nodes carrying the
\* attribute, each with its value
get_node_attributes(g) == g.street_count

\* streets_per_node that fails on a stale graph instead of warning
streets_per_node_strict(g) ==
    LET spn == get_node_attributes(g)
    IN  IF DOMAIN spn # g.nodes THEN Raise("ValueError", <<StaleMsg>>)
        ELSE Ok(spn, <<>>)

streets_per_node(g) ==
    LET spn == get_node_attributes(g)
    IN  IF DOMAIN spn # g.nodes THEN Ok(spn, <<StaleMsg>>) ELSE Ok(spn, <<>>)

streets_per_node_avg(g) ==
    LET r == streets_per_node(g)
        spn == r.value
    IN  PyDiv(SumOver(spn, DOMAIN spn), Cardinality(g.nodes), r.msgs)

\* spn_vals.count(i)
CountOf(spn, i) == Cardinality({n \in DOMAIN spn : spn[n] = i})

\* streets_per_node_counts over range(max(spn_vals)): the maximum is left out
streets_per_node_counts_short(g) ==
    LET r == streets_per_node(g)
        spn == r.value
    IN  IF DOMAIN spn = {} THEN Raise("ValueError", r.msgs)
        ELSE LET mx == SetMax({spn[n] : n \in DOMAIN spn})
             IN  Ok([i \in 0..(mx - 1) |-> CountOf(spn, i)], r.msgs)

streets_per_node_counts(g) ==
    LET r == streets_per_node(g)
        spn == r.value
    IN  IF DOMAIN spn = {} THEN Raise("ValueError", r.msgs)
        ELSE LET mx == SetMax({spn[n] : n \in DOMAIN spn})
             IN  Ok([i \in 0..mx |-> CountOf(spn, i)], r.msgs)

streets_per_node_proportions(g) ==
    LET n == Cardinality(g.nodes)
        r == streets_per_node_counts(g)
    IN  IF r.status = "raise" THEN r
        ELSE Ok([i \in DOMAIN r.value |-> Float(r.value[i], n)], r.msgs)

\* intersection_count that wants more than min_streets streets
intersection_count_gt(g, min_streets) ==
    LET r == streets_per_node(g)
        spn == r.value
        node_ids == g.nodes
    IN  Ok(Cardinality({node \in DOMAIN spn :
                           spn[node] > min_streets /\ node \in node_ids}),
           r.msgs)

intersection_count(g, min_streets) ==
    LET r == streets_per_node(g)
        spn == r.value
        node_ids == g.nodes
    IN  Ok(Cardinality({node \in DOMAIN spn :
                           spn[node] >= min_streets /\ node \in node_ids}),
           r.msgs)

(***************************************************************************)
(* Edge measures                                                           *)
(***************************************************************************)
RECURSIVE SumLength(_)
\* sum(d["length"] for u, v, d in edges)
SumLength(E) ==
    IF E = {} THEN 0
    ELSE LET e == CHOOSE e \in E : TRUE IN e.length + SumLength(E \ {e})

\* nx.is_directed
is_directed(g) == g.directed

\* street_segment_count without the check of its argument
street_segment_count_unchecked(Gu) == Ok(Cardinality(Gu.edges), <<>>)

street_segment_count(Gu) ==
    IF is_directed(Gu) THEN Raise("ValueError", <<>>)
    ELSE Ok(Cardinality(Gu.edges), <<>>)

\* street_length_total that leaves the self-loops out
street_length_total_noloops(Gu) ==
    IF is_directed(Gu) THEN Raise("ValueError", <<>>)
    ELSE Ok(SumLength({e \in Gu.edges : e.u # e.v}), <<>>)

street_length_total(Gu) ==
    IF is_directed(Gu) THEN Raise("ValueError", <<>>)
    ELSE Ok(SumLength(Gu.edges), <<>>)

edge_length_total(g) == Ok(SumLength(g.edges), <<>>)

\* self_loop_proportion that answers 0 for a graph without edges
self_loop_proportion_zero(Gu) ==
    IF is_directed(Gu) THEN Raise("ValueError", <<>>)
    ELSE IF Gu.edges = {} THEN Ok(Float(0, 1), <<>>)
    ELSE PyDiv(Cardinality({e \in Gu.edges : e.u = e.v}),
               Cardinality(Gu.edges), <<>>)

self_loop_proportion(Gu) ==
    IF is_directed(Gu) THEN Raise("ValueError", <<>>)
    ELSE PyDiv(Cardinality({e \in Gu.edges : e.u = e.v}),
               Cardinality(Gu.edges), <<>>)

(***************************************************************************)
(* Circuity                                                                *)
(***************************************************************************)
\* the integer square root, exact on the squares the coordinates produce
ISqrt(n) == CHOOSE r \in 0..n : r * r <= n /\ (r + 1) * (r + 1) > n

\* metres per degree of arc on a sphere of the earth's radius
MetresPerDegree == 111195

\* a straight-line distance: a number of metres, or not-a-number
Dist(d) == [nan |-> FALSE, d |-> d]
DistNaN == [nan |-> TRUE, d |-> 0]

\* distance.euclidean_dist_vec, for one pair of points
euclidean_dist_vec(p, q) ==
    IF p.nan \/ q.nan THEN DistNaN
    ELSE Dist(ISqrt((p.x - q.x) * (p.x - q.x) + (p.y - q.y) * (p.y - q.y)))

\* distance.great_circle_vec, for one pair of points a few degrees apart
great_circle_vec(p, q) ==
    IF p.nan \/ q.nan THEN DistNaN
    ELSE Dist(MetresPerDegree
              * ISqrt((p.x - q.x) * (p.x - q.x) + (p.y - q.y) * (p.y - q.y)))

\* projection.is_projected(Gu.graph["crs"])
is_projected(g) == g.projected

\* sl_dists, keyed by edge
sl_dists(Gu) ==
    [e \in Gu.edges |->
        IF is_projected(Gu) THEN euclidean_dist_vec(Gu.xy[e.u], Gu.xy[e.v])
        ELSE great_circle_vec(Gu.xy[e.u], Gu.xy[e.v])]

RECURSIVE SumDist(_, _)
SumDist(d, E) ==
    IF E = {} THEN 0
    ELSE LET e == CHOOSE e \in E : TRUE IN d[e].d + SumDist(d, E \ {e})

\* sl_dists[~np.isnan(sl_dists)].sum()
sl_dists_total(Gu) ==
    LET d == sl_dists(Gu)
    IN  SumDist(d, {e \in Gu.edges : ~d[e].nan})

\* a / b where b is a numpy float64: numpy divides by zero without raising
NpDiv(a, b) ==
    IF b = 0 THEN (IF a = 0 THEN Ok(NaN, <<>>) ELSE Ok(Inf, <<>>))
    ELSE Ok(Float(a, b), <<>>)

circuity_avg(Gu) ==
    IF is_directed(Gu) THEN Raise("ValueError", <<>>)
    ELSE IF Gu.edges = {} THEN Raise("IndexError", <<>>)
    ELSE LET r == NpDiv(edge_length_total(Gu).value, sl_dists_total(Gu))
         IN  IF r.status = "raise" /\ r.exc = "ZeroDivisionError"
             THEN Ok(FloatNone, <<>>)
             ELSE r

(***************************************************************************)
(* Collaborators of basic_stats                                            *)
(***************************************************************************)
\* utils_graph.get_undirected: the edges between the same two nodes, in
\* either direction, that carry the same attributes collapse into one
\* undirected edge; those that differ stay parallel edges
get_undirected(g) ==
    LET und(e) == [u |-> IF e.u <= e.v THEN e.u ELSE e.v,
                   v |-> IF e.u <= e.v THEN e.v ELSE e.u,
                   length |-> e.length]
        streets == {und(e) : e \in g.edges}
        rank(t) == Cardinality({o \in streets :
                       o.u = t.u /\ o.v = t.v /\ o.length < t.length})
    IN  [g EXCEPT !.directed = FALSE,
                  !.edges = { [u |-> t.u, v |-> t.v, k |-> rank(t),
                               length |-> t.length] : t \in streets }]

RECURSIVE Grow(_, _, _, _)
\* the nodes of kept whose buffers of radius tol chain to those of C
Grow(g, tol, kept, C) ==
    LET near(a, b) == LET d == euclidean_dist_vec(g.xy[a], g.xy[b])
                      IN  ~d.nan /\ d.d <= 2 * tol
        C2 == C \cup {b \in kept : \E a \in C : near(a, b)}
    IN  IF C2 = C THEN C ELSE Grow(g, tol, kept, C2)

\* simplification.consolidate_intersections: the clusters of nodes merged
\* at the tolerance; dead ends are left out unless dead_ends
consolidate_intersections(g, tol, rebuild_graph, dead_ends) ==
    LET sc == g.street_count
        kept == {n \in g.nodes :
                    dead_ends \/ (n \in DOMAIN sc /\ sc[n] > 1)}
    IN  { Grow(g, tol, kept, {n}) : n \in kept }

(***************************************************************************)
(* basic_stats                                                             *)
(***************************************************************************)
CircuityDistMsg == "warn: The circuity_dist argument has been deprecated"
CleanIntersectsMsg == "warn: The clean_intersects and tolerance arguments have been deprecated"

\* the truth value Python gives an optional number in `if x:`
Truthy(x) == x.some /\ x.v # 0

\* area converted as if a square kilometre were 1000 square metres
area_km_thousand(area) == Float(area, 1000)

\* area / 1_000_000
area_km(area) == Float(area, 1000000)

\* a / q for an int a and a float q
DivByFloat(a, q) ==
    IF q.num = 0 THEN Raise("ZeroDivisionError", <<>>)
    ELSE Ok(Float(a * q.den, q.num), <<>>)

Step(key, out) == [key |-> key, out |-> out]

\* the warnings of the deprecated parameters; the values they resolve to
\* (clean_intersects = False, tolerance = 15) are not read again
DeprecationWarnings(clean_intersects, tolerance, circuity_dist) ==
    (IF circuity_dist.some THEN <<CircuityDistMsg>> ELSE <<>>)
    \o (IF clean_intersects.some THEN <<CleanIntersectsMsg>> ELSE <<>>)
    \o (IF tolerance.some THEN <<CleanIntersectsMsg>> ELSE <<>>)

\* the unconditional measures, in the order they are computed
BasicSteps(g) ==
    LET Gu == get_undirected(g)
        n == Cardinality(g.nodes)
        m == Cardinality(g.edges)
        elt == edge_length_total(g)
        slt == street_length_total(Gu)
        ssc == street_segment_count(Gu)
    IN  << Step("n", Ok(n, <<>>)),
           Step("m", Ok(m, <<>>)),
           Step("k_avg", PyDiv(2 * m, n, <<>>)),
           Step("edge_length_total", elt),
           Step("edge_length_avg", PyDiv(elt.value, m, <<>>)),
           Step("streets_per_node_avg", streets_per_node_avg(g)),
           Step("streets_per_node_counts", streets_per_node_counts(g)),
           Step("streets_per_node_proportions", streets_per_node_proportions(g)),
           Step("intersection_count", intersection_count(g, 2)),
           Step("street_length_total", slt),
           Step("street_segment_count", ssc),
           Step("street_length_avg", PyDiv(slt.value, ssc.value, <<>>)),
           Step("circuity_avg", circuity_avg(Gu)),
           Step("self_loop_proportion", self_loop_proportion(Gu)) >>

\* the clean intersection count, if requested
CleanSteps(g, clean_int_tol) ==
    IF Truthy(clean_int_tol)
    THEN << Step("clean_intersection_count",
                 Ok(Cardinality(consolidate_intersections(
                        g, clean_int_tol.v, FALSE, FALSE)), <<>>)) >>
    ELSE << >>

\* the value an earlier step stored under key
Stored(steps, key) ==
    LET i == CHOOSE i \in DOMAIN steps : steps[i].key = key
    IN  steps[i].out.value

\* the density measures, if area was provided
DensitySteps(steps, area, clean_int_tol) ==
    IF area.some
    THEN LET akm == area_km(area.v)
         IN  << Step("node_density_km", DivByFloat(Stored(steps, "n"), akm)),
                Step("intersection_density_km",
                     DivByFloat(Stored(steps, "intersection_count"), akm)),
                Step("edge_density_km",
                     DivByFloat(Stored(steps, "edge_length_total"), akm)),
                Step("street_density_km",
                     DivByFloat(Stored(steps, "street_length_total"), akm)) >>
              \o (IF Truthy(clean_int_tol)
                  THEN << Step("clean_intersection_density_km",
                               DivByFloat(Stored(steps, "clean_intersection_count"),
                                          akm)) >>
                  ELSE << >>)
    ELSE << >>

RECURSIVE MsgsUpTo(_, _)
\* what the first n steps logged
MsgsUpTo(steps, n) ==
    IF n = 0 THEN << >> ELSE MsgsUpTo(steps, n - 1) \o steps[n].out.msgs

\* the statements run in order: the first exception ends the call, and
\* without one the report holds every key stored
RunSteps(steps, warned) ==
    LET failed == {i \in DOMAIN steps : steps[i].out.status = "raise"}
    IN  IF failed # {}
        THEN LET f == CHOOSE i \in failed : \A j \in failed : i <= j
             IN  Raise(steps[f].out.exc, warned \o MsgsUpTo(steps, f))
        ELSE Ok([key \in {steps[i].key : i \in DOMAIN steps} |->
                    Stored(steps, key)],
                warned \o MsgsUpTo(steps, Len(steps)))

basic_stats(g, area, clean_int_tol, clean_intersects, tolerance, circuity_dist) ==
    LET warned == DeprecationWarnings(clean_intersects, tolerance, circuity_dist)
        s1 == BasicSteps(g)
        failed1 == \E i \in DOMAIN s1 : s1[i].out.status = "raise"
        s2 == IF failed1 THEN s1 ELSE s1 \o CleanSteps(g, clean_int_tol)
        s3 == IF failed1 THEN s2 ELSE s2 \o DensitySteps(s2, area, clean_int_tol)
    IN  RunSteps(s3, warned)

(***************************************************************************)
(* Graphs                                                                  *)
(***************************************************************************)
NodeIds == 1..MaxNodes

Graph(directed, nodes, sc, xy, projected, edges) ==
    [directed |-> directed, nodes |-> nodes, street_count |-> sc, xy |-> xy,
     projected |-> projected, edges |-> edges]

\* graphs that differ in their node set and in which nodes carry street_count
StreetGraphs ==
    { Graph(TRUE, nodes, sc, [n \in nodes |-> Pt(0, 0)], TRUE, {}) :
        nodes \in SUBSET NodeIds,
        sc \in UNION { [S -> 0..MaxStreets] : S \in SUBSET NodeIds } }

InitStreets ==
    /\ G \in {g \in StreetGraphs : DOMAIN g.street_count \subseteq g.nodes}
    /\ call = NoCall
    /\ ret = NoRet

\* the caller takes the outcome; the next call starts from the same graph
Return ==
    /\ call.op # "none"
    /\ call' = NoCall
    /\ ret' = NoRet
    /\ UNCHANGED G

Call_streets_per_node ==
    /\ call.op = "none"
    /\ call' = [op |-> "streets_per_node"]
    /\ ret' = streets_per_node(G)
    /\ UNCHANGED G

Call_streets_per_node_avg ==
    /\ call.op = "none"
    /\ call' = [op |-> "streets_per_node_avg"]
    /\ ret' = streets_per_node_avg(G)
    /\ UNCHANGED G

Call_streets_per_node_counts ==
    /\ call.op = "none"
    /\ call' = [op |-> "streets_per_node_counts"]
    /\ ret' = streets_per_node_counts(G)
    /\ UNCHANGED G

Call_streets_per_node_proportions ==
    /\ call.op = "none"
    /\ call' = [op |-> "streets_per_node_proportions"]
    /\ ret' = streets_per_node_proportions(G)
    /\ UNCHANGED G

Call_intersection_count ==
    \E k \in 0..(MaxStreets + 1) :
        /\ call.op = "none"
        /\ call' = [op |-> "intersection_count", min_streets |-> k]
        /\ ret' = intersection_count(G, k)
        /\ UNCHANGED G

NextStreets ==
    \/ Call_streets_per_node
    \/ Call_streets_per_node_avg
    \/ Call_streets_per_node_counts
    \/ Call_streets_per_node_proportions
    \/ Call_intersection_count
    \/ Return

SpecStreets == InitStreets /\ [][NextStreets]_vars

\* the edges of a multigraph, from the order they were added in: the key of
\* an edge is the number of edges added before it between the same nodes
EdgesFromSeq(s) ==
    { [u |-> s[i].u, v |-> s[i].v,
       k |-> Cardinality({j \in 1..(i - 1) : s[j].u = s[i].u /\ s[j].v = s[i].v}),
       length |-> s[i].length] : i \in DOMAIN s }

EdgeSeqs(pairs) ==
    UNION { [1..n -> { [u |-> p[1], v |-> p[2], length |-> l] :
                          p \in pairs, l \in Lengths }] : n \in 0..MaxEdges }

DirectedPairs == GeomNodes \X GeomNodes

\* graphs that differ in direction, edges, node coordinates and CRS
GeomGraphs ==
    { Graph(directed, GeomNodes, [n \in GeomNodes |-> 2], xy, projected,
            EdgesFromSeq(s)) :
        directed \in BOOLEAN, xy \in [GeomNodes -> Points],
        projected \in BOOLEAN,
        s \in EdgeSeqs(DirectedPairs) }

InitMetrics ==
    /\ G \in {g \in GeomGraphs :
                 g.directed \/ \A e \in g.edges : e.u <= e.v}
    /\ call = NoCall
    /\ ret = NoRet

Call_street_segment_count ==
    /\ call.op = "none"
    /\ call' = [op |-> "street_segment_count"]
    /\ ret' = street_segment_count(G)
    /\ UNCHANGED G

Call_street_length_total ==
    /\ call.op = "none"
    /\ call' = [op |-> "street_length_total"]
    /\ ret' = street_length_total(G)
    /\ UNCHANGED G

Call_edge_length_total ==
    /\ call.op = "none"
    /\ call' = [op |-> "edge_length_total"]
    /\ ret' = edge_length_total(G)
    /\ UNCHANGED G

Call_self_loop_proportion ==
    /\ call.op = "none"
    /\ call' = [op |-> "self_loop_proportion"]
    /\ ret' = self_loop_proportion(G)
    /\ UNCHANGED G

Call_circuity_avg ==
    /\ call.op = "none"
    /\ call' = [op |-> "circuity_avg"]
    /\ ret' = circuity_avg(G)
    /\ UNCHANGED G

NextMetrics ==
    \/ Call_street_segment_count
    \/ Call_street_length_total
    \/ Call_edge_length_total
    \/ Call_self_loop_proportion
    \/ Call_circuity_avg
    \/ Return

SpecMetrics == InitMetrics /\ [][NextMetrics]_vars

\* directed graphs as basic_stats receives them
BasicGraphs ==
    { Graph(TRUE, GeomNodes, sc, [n \in GeomNodes |-> IF n = 1 THEN Pt(0, 0) ELSE Pt(3, 4)],
            TRUE, EdgesFromSeq(s)) :
        sc \in UNION { [S -> {1, MaxStreets}] : S \in SUBSET GeomNodes },
        s \in EdgeSeqs(DirectedPairs) }

Areas == {None, Some(0), Some(2000000)}
CleanIntTols == {None, Some(0), Some(2), Some(15)}
CleanIntersects == {NoneBool, Some(TRUE)}
Tolerances == {None, Some(15)}
CircuityDists == {NoneStr, Some("gc")}

InitBasic ==
    /\ G \in BasicGraphs
    /\ call = NoCall
    /\ ret = NoRet

Call_basic_stats ==
    \E area \in Areas, clean_int_tol \in CleanIntTols,
       clean_intersects \in CleanIntersects, tolerance \in Tolerances,
       circuity_dist \in CircuityDists :
        /\ call.op = "none"
        /\ call' = [op |-> "basic_stats", area |-> area,
                    clean_int_tol |-> clean_int_tol,
                    clean_intersects |-> clean_intersects,
                    tolerance |-> tolerance, circuity_dist |-> circuity_dist]
        /\ ret' = basic_stats(G, area, clean_int_tol, clean_intersects,
                              tolerance, circuity_dist)
        /\ UNCHANGED G

NextBasic ==
    \/ Call_basic_stats
    \/ Return

SpecBasic == InitBasic /\ [][NextBasic]_vars

(***************************************************************************)
(* Properties                                                              *)
(***************************************************************************)
UndirectedOnly ==
    {"street_segment_count", "street_length_total", "self_loop_proportion",
     "circuity_avg"}

\* C1: on a directed graph every undirected-only measure raises the
\* precondition error (ValueError) and returns no value; on an undirected
\* graph street_segment_count is the number of edges, parallel edges each
\* counted.
C1_UndirectedPrecondition ==
    /\ (call.op \in UndirectedOnly /\ G.directed)
         => (ret.status = "raise" /\ ret.exc = "ValueError")
    /\ (call.op = "street_segment_count" /\ ~G.directed)
         => (/\ ret.status = "ok"
             /\ ret.value = Cardinality({<<e.u, e.v, e.k>> : e \in G.edges}))

C1_Witness ==
    /\ call.op = "self_loop_proportion"
    /\ G.directed
    /\ G.edges # {}
    /\ ret.status = "raise"

\* C2: on an undirected graph circuity_avg returns None, without raising,
\* when the sum of the valid straight-line distances is zero (no edges, or
\* only self-loops), and total edge length over that sum otherwise.
C2_CircuityUndefinedIsNone ==
    (call.op = "circuity_avg" /\ ~G.directed)
      => IF sl_dists_total(G) = 0
         THEN ret.status = "ok" /\ ret.value = FloatNone
         ELSE /\ ret.status = "ok"
              /\ ret.value.kind = "float"
              /\ ret.value.num * sl_dists_total(G)
                   = SumLength(G.edges) * ret.value.den

\* C10: on an undirected graph with edges self_loop_proportion is the number
\* of edges with u = v over the number of edges, within [0, 1]; without
\* edges it raises ZeroDivisionError and returns nothing.
C10_SelfLoopProportion ==
    (call.op = "self_loop_proportion" /\ ~G.directed)
      => IF G.edges # {}
         THEN /\ ret.status = "ok"
              /\ ret.value.kind = "float"
              /\ ret.value.num * Cardinality(G.edges)
                   = Cardinality({e \in G.edges : e.u = e.v}) * ret.value.den
              /\ 0 <= ret.value.num
              /\ ret.value.num <= ret.value.den
         ELSE ret.status = "raise" /\ ret.exc = "ZeroDivisionError"

C10_Witness ==
    /\ call.op = "self_loop_proportion"
    /\ ~G.directed
    /\ ret.status = "ok"
    /\ ret.value = Float(1, 2)

(***************************************************************************)
(* Properties of the street counts                                         *)
(***************************************************************************)
Stale == DOMAIN G.street_count # G.nodes

\* the sum of the values of a histogram
RECURSIVE HistSum(_, _)
HistSum(h, S) ==
    IF S = {} THEN 0
    ELSE LET i == CHOOSE i \in S : TRUE IN h[i] + HistSum(h, S \ {i})

\* the sum of i * p over a histogram of proportions, as a float
RECURSIVE Mean(_, _)
Mean(h, S) ==
    IF S = {} THEN Float(0, 1)
    ELSE LET i == CHOOSE i \in S : TRUE
             r == Mean(h, S \ {i})
         IN  Float(i * h[i].num * r.den + r.num * h[i].den, h[i].den * r.den)

PresentValues == {G.street_count[n] : n \in DOMAIN G.street_count}
PresentSum == SumOver(G.street_count, DOMAIN G.street_count)

\* C6 as stated: whenever streets_per_node_counts returns, its values sum to
\* the number of nodes of the graph.
C6_CountsSumToNodes ==
    (call.op = "streets_per_node_counts" /\ ret.status = "ok")
      => HistSum(ret.value, DOMAIN ret.value) = Cardinality(G.nodes)

\* C6: for a graph in which some node carries street_count, the keys of
\* streets_per_node_counts are exactly 0..max observed count and its values
\* sum to the number of nodes that carry street_count (all the nodes when
\* the graph is not stale); the sum of i * p over the proportions is
\* streets_per_node_avg, the sum of the present counts over |V|.
C6_Histogram ==
    /\ (call.op = "streets_per_node_counts" /\ DOMAIN G.street_count # {})
         => (/\ ret.status = "ok"
             /\ DOMAIN ret.value = 0..SetMax(PresentValues)
             /\ \A i \in DOMAIN ret.value :
                    (ret.value[i] = 0) <=> (i \notin PresentValues)
             /\ HistSum(ret.value, DOMAIN ret.value)
                  = Cardinality(DOMAIN G.street_count)
             /\ (~Stale => HistSum(ret.value, DOMAIN ret.value)
                             = Cardinality(G.nodes)))
    /\ (call.op = "streets_per_node_proportions" /\ DOMAIN G.street_count # {})
         => (/\ ret.status = "ok"
             /\ Mean(ret.value, DOMAIN ret.value) = streets_per_node_avg(G).value
             /\ Mean(ret.value, DOMAIN ret.value).num * Cardinality(G.nodes)
                  = PresentSum * Mean(ret.value, DOMAIN ret.value).den)
    /\ (call.op = "streets_per_node_avg" /\ G.nodes # {})
         => (/\ ret.status = "ok"
             /\ ret.value.num * Cardinality(G.nodes) = PresentSum * ret.value.den)

C6_Witness ==
    /\ call.op = "streets_per_node_counts"
    /\ ret.status = "ok"
    /\ Stale
    /\ Cardinality(DOMAIN G.street_count) >= 2
    /\ \E i \in DOMAIN ret.value : ret.value[i] = 0
    /\ HistSum(ret.value, DOMAIN ret.value) = Cardinality(DOMAIN G.street_count)
    /\ HistSum(ret.value, DOMAIN ret.value) < Cardinality(G.nodes)

\* C7: on a graph whose nodes carrying street_count are not its nodes,
\* streets_per_node logs a warning and returns exactly the present values,
\* streets_per_node_avg is the sum of the present values over |V|, and
\* intersection_count returns a value; none of them raises.
C7_StaleGraph ==
    Stale =>
      /\ call.op = "streets_per_node"
           => (/\ ret.status = "ok"
               /\ ret.msgs = <<StaleMsg>>
               /\ DOMAIN ret.value = {n \in G.nodes : n \in DOMAIN G.street_count}
               /\ \A n \in DOMAIN ret.value : ret.value[n] = G.street_count[n])
      /\ call.op = "streets_per_node_avg"
           => (/\ ret.status = "ok"
               /\ StaleMsg \in {ret.msgs[i] : i \in DOMAIN ret.msgs}
               /\ ret.value.num * Cardinality(G.nodes)
                    = PresentSum * ret.value.den)
      /\ call.op = "intersection_count"
           => (ret.status = "ok" /\ ret.value \in 0..Cardinality(G.nodes))

C7_Witness ==
    /\ Stale
    /\ call.op = "streets_per_node_avg"
    /\ ret.status = "ok"
    /\ DOMAIN G.street_count # {}
    /\ ret.value.num > 0
    /\ ret.value.num * Cardinality(DOMAIN G.street_count)
         < PresentSum * ret.value.den

\* C8: intersection_count(G, k) is the number of nodes whose street count
\* is at least k, and it does not increase with k.
C8_IntersectionCount ==
    call.op = "intersection_count"
      => /\ ret.status = "ok"
         /\ ret.value = Cardinality({n \in G.nodes :
                            /\ n \in DOMAIN G.street_count
                            /\ G.street_count[n] >= call.min_streets})
         /\ \A k \in 0..(MaxStreets + 1) :
              /\ k <= call.min_streets
                   => intersection_count(G, k).value >= ret.value
              /\ k >= call.min_streets
                   => intersection_count(G, k).value <= ret.value

C8_Witness ==
    /\ call.op = "intersection_count"
    /\ call.min_streets = 2
    /\ ret.status = "ok"
    /\ ret.value > 0
    /\ ret.value < intersection_count(G, 1).value

(***************************************************************************)
(* Properties of the report of basic_stats                                 *)
(***************************************************************************)
Reported == call.op = "basic_stats" /\ ret.status = "ok"

DensityKeys ==
    {"node_density_km", "intersection_density_km", "edge_density_km",
     "street_density_km"}

\* d is the float a / (area / 1_000_000)
IsDensity(d, a, area) ==
    d.kind = "float" /\ d.num * area = a * 1000000 * d.den

\* C3: a report holds all four density keys when area was supplied and
\* none of them otherwise; each is the absolute measure it belongs to
\* divided by area / 1_000_000.
C3_DensityKeys ==
    Reported =>
      /\ call.area.some => DensityKeys \subseteq DOMAIN ret.value
      /\ ~call.area.some => DensityKeys \cap DOMAIN ret.value = {}
      /\ ret.value["n"] = Cardinality(G.nodes)
      /\ call.area.some =>
           /\ IsDensity(ret.value["node_density_km"], ret.value["n"],
                        call.area.v)
           /\ IsDensity(ret.value["intersection_density_km"],
                        ret.value["intersection_count"], call.area.v)
           /\ IsDensity(ret.value["edge_density_km"],
                        ret.value["edge_length_total"], call.area.v)
           /\ IsDensity(ret.value["street_density_km"],
                        ret.value["street_length_total"], call.area.v)

C3_Witness ==
    /\ Reported
    /\ call.area = Some(2000000)
    /\ ret.value["node_density_km"] = Float(1, 1)
    /\ ret.value["street_density_km"] = Float(75, 1)

\* C4: a report holds clean_intersection_count exactly when clean_int_tol
\* was supplied, whatever its value (0 included), and
\* clean_intersection_density_km exactly when area was supplied too; the
\* count is the number of clusters consolidate_intersections returns with
\* rebuild_graph=False and dead_ends=False.
C4_CleanIntersectionKeys ==
    Reported =>
      /\ ("clean_intersection_count" \in DOMAIN ret.value)
           <=> call.clean_int_tol.some
      /\ ("clean_intersection_density_km" \in DOMAIN ret.value)
           <=> (call.clean_int_tol.some /\ call.area.some)
      /\ ("clean_intersection_count" \in DOMAIN ret.value)
           => ret.value["clean_intersection_count"]
                = Cardinality(consolidate_intersections(
                      G, call.clean_int_tol.v, FALSE, FALSE))

\* C5: a deprecated parameter makes basic_stats warn, never makes it fail,
\* and is resolved to its current equivalent: clean_intersects=True with
\* tolerance=t reports what clean_int_tol=t reports.
C5_LegacyParameters ==
    call.op = "basic_stats" =>
      /\ (call.clean_intersects.some \/ call.tolerance.some
            \/ call.circuity_dist.some)
           => \E i \in DOMAIN ret.msgs :
                  ret.msgs[i] \in {CircuityDistMsg, CleanIntersectsMsg}
      /\ ret.status = basic_stats(G, call.area, call.clean_int_tol,
                                  NoneBool, None, NoneStr).status
      /\ (/\ ret.status = "ok"
          /\ call.clean_intersects = Some(TRUE)
          /\ call.tolerance.some
          /\ ~call.clean_int_tol.some)
           => ret.value = basic_stats(G, call.area, call.tolerance,
                                      NoneBool, None, NoneStr).value

\* no two edges of g join the same two nodes: every street is one-way
OneWayOnly(g) ==
    \A e, f \in g.edges :
        ({e.u, e.v} = {f.u, f.v}) => e = f

\* every street of g is a pair of opposite edges of one length
TwoWayOnly(g) ==
    \A e \in g.edges :
        /\ e.u # e.v
        /\ \E f \in g.edges :
              /\ f.u = e.v /\ f.v = e.u /\ f.length = e.length
              /\ \A h \in g.edges :
                    ({h.u, h.v} = {e.u, e.v}) => h \in {e, f}

\* C9: in a report on a graph of one-way streets edge_length_total is
\* street_length_total; on a graph of two-way streets, each a pair of
\* opposite edges of one length, street_length_total is half of
\* edge_length_total, and so differs from it when the lengths are positive.
C9_LengthRoundTrip ==
    Reported =>
      /\ OneWayOnly(G)
           => ret.value["edge_length_total"] = ret.value["street_length_total"]
      /\ TwoWayOnly(G)
           => /\ 2 * ret.value["street_length_total"]
                   = ret.value["edge_length_total"]
              /\ (\A e \in G.edges : e.length > 0)
                   => ret.value["street_length_total"]
                        # ret.value["edge_length_total"]

C9_Witness ==
    /\ Reported
    /\ OneWayOnly(G)
    /\ Cardinality(G.edges) = 2
    /\ \E e \in G.edges : e.u = e.v /\ e.length > 0
    /\ ret.value["edge_length_total"] = 150
    /\ ret.value["street_length_total"] = 150

(***************************************************************************)
(* extended_stats                                                          *)
(***************************************************************************)
ExtendedStatsMsg == "warn: The extended_stats function has been deprecated"

\* a measure the graph library computes: the function called and the graph
\* view it is called on, its numbers left to the library
Nx(fn, view) == [fn |-> fn, view |-> view, agg |-> "none"]
\* pagerank[max(pagerank, key=...)], sum(x.values()) / len(x) and the like
Agg(agg, m) == [m EXCEPT !.agg = agg]

\* sum(x.values()) / len(x) over a per-node measure x of graph g
AvgStep(key, g, m) ==
    IF g.nodes = {} THEN Step(key, Raise("ZeroDivisionError", <<>>))
    ELSE Step(key, Ok(Agg("avg", m), <<>>))

\* the measures computed whatever the flags, in the order they are stored
ExtendedSteps(g) ==
    LET avg_neighbor_degree == Nx("average_neighbor_degree", "G")
        avg_wtd_nbr_deg == Nx("average_neighbor_degree(weight)", "G")
        degree_centrality == Nx("degree_centrality", "G")
        pagerank == Nx("pagerank(weight)", "D")
    IN  << Step("avg_neighbor_degree", Ok(avg_neighbor_degree, <<>>)),
           AvgStep("avg_neighbor_degree_avg", g, avg_neighbor_degree),
           Step("avg_weighted_neighbor_degree", Ok(avg_wtd_nbr_deg, <<>>)),
           AvgStep("avg_weighted_neighbor_degree_avg", g, avg_wtd_nbr_deg),
           Step("degree_centrality", Ok(degree_centrality, <<>>)),
           AvgStep("degree_centrality_avg", g, degree_centrality),
           Step("clustering_coefficient", Ok(Nx("clustering", "Gu"), <<>>)),
           Step("clustering_coefficient_avg",
                Ok(Nx("average_clustering", "Gu"), <<>>)),
           Step("clustering_coefficient_weighted",
                Ok(Nx("clustering(weight)", "Gu"), <<>>)),
           Step("clustering_coefficient_weighted_avg",
                Ok(Nx("average_clustering(weight)", "Gu"), <<>>)),
           Step("pagerank", Ok(pagerank, <<>>)),
           Step("pagerank_max_node", Ok(Agg("argmax", pagerank), <<>>)),
           Step("pagerank_max", Ok(Agg("max", pagerank), <<>>)),
           Step("pagerank_min_node", Ok(Agg("argmin", pagerank), <<>>)),
           Step("pagerank_min", Ok(Agg("min", pagerank), <<>>)) >>

\* the gated blocks with the closeness block under the bc flag and the
\* betweenness block under the cc flag
ExtendedGatedSteps_swapped(g, connectivity, anc, ecc, bc, cc) ==
    (IF connectivity
     THEN << Step("node_connectivity", Ok(Nx("node_connectivity", "Gs"), <<>>)),
             Step("edge_connectivity", Ok(Nx("edge_connectivity", "Gs"), <<>>)) >>
     ELSE << >>)
    \o (IF anc
        THEN << Step("node_connectivity_avg",
                     Ok(Nx("average_node_connectivity", "G"), <<>>)) >>
        ELSE << >>)
    \o (IF ecc
        THEN LET eccentricity == Nx("eccentricity(sp)", "Gs")
             IN  << Step("eccentricity", Ok(eccentricity, <<>>)),
                    Step("diameter", Ok(Agg("diameter", eccentricity), <<>>)),
                    Step("radius", Ok(Agg("radius", eccentricity), <<>>)),
                    Step("center", Ok(Agg("center", eccentricity), <<>>)),
                    Step("periphery", Ok(Agg("periphery", eccentricity), <<>>)) >>
        ELSE << >>)
    \o (IF bc
        THEN LET close_cent == Nx("closeness_centrality(distance)", "G")
             IN  << Step("closeness_centrality", Ok(close_cent, <<>>)),
                    AvgStep("closeness_centrality_avg", g, close_cent) >>
        ELSE << >>)
    \o (IF cc
        THEN LET btwn_cent == Nx("betweenness_centrality(weight)", "D")
             IN  << Step("betweenness_centrality", Ok(btwn_cent, <<>>)),
                    AvgStep("betweenness_centrality_avg", g, btwn_cent) >>
        ELSE << >>)

\* the blocks computed on request, in the order of the code
ExtendedGatedSteps(g, connectivity, anc, ecc, bc, cc) ==
    (IF connectivity
     THEN << Step("node_connectivity", Ok(Nx("node_connectivity", "Gs"), <<>>)),
             Step("edge_connectivity", Ok(Nx("edge_connectivity", "Gs"), <<>>)) >>
     ELSE << >>)
    \o (IF anc
        THEN << Step("node_connectivity_avg",
                     Ok(Nx("average_node_connectivity", "G"), <<>>)) >>
        ELSE << >>)
    \o (IF ecc
        THEN LET eccentricity == Nx("eccentricity(sp)", "Gs")
             IN  << Step("eccentricity", Ok(eccentricity, <<>>)),
                    Step("diameter", Ok(Agg("diameter", eccentricity), <<>>)),
                    Step("radius", Ok(Agg("radius", eccentricity), <<>>)),
                    Step("center", Ok(Agg("center", eccentricity), <<>>)),
                    Step("periphery", Ok(Agg("periphery", eccentricity), <<>>)) >>
        ELSE << >>)
    \o (IF cc
        THEN LET close_cent == Nx("closeness_centrality(distance)", "G")
             IN  << Step("closeness_centrality", Ok(close_cent, <<>>)),
                    AvgStep("closeness_centrality_avg", g, close_cent) >>
        ELSE << >>)
    \o (IF bc
        THEN LET btwn_cent == Nx("betweenness_centrality(weight)", "D")
             IN  << Step("betweenness_centrality", Ok(btwn_cent, <<>>)),
                    AvgStep("betweenness_centrality_avg", g, btwn_cent) >>
        ELSE << >>)

extended_stats(g, connectivity, anc, ecc, bc, cc) ==
    LET s1 == ExtendedSteps(g)
        failed1 == \E i \in DOMAIN s1 : s1[i].out.status = "raise"
        s2 == IF failed1 THEN s1
              ELSE s1 \o ExtendedGatedSteps(g, connectivity, anc, ecc, bc, cc)
    IN  RunSteps(s2, <<ExtendedStatsMsg>>)

\* directed graphs as extended_stats receives them, the empty graph included
ExtendedGraphs ==
    { Graph(TRUE, nodes, [n \in nodes |-> 2],
            [n \in nodes |-> IF n = 1 THEN Pt(0, 0) ELSE Pt(3, 4)],
            TRUE, EdgesFromSeq(s)) :
        nodes \in {{}, GeomNodes},
        s \in EdgeSeqs(DirectedPairs) }

InitExtended ==
    /\ G \in {g \in ExtendedGraphs : g.nodes # {} \/ g.edges = {}}
    /\ call = NoCall
    /\ ret = NoRet

Call_extended_stats ==
    \E connectivity \in BOOLEAN, anc \in BOOLEAN, ecc \in BOOLEAN,
       bc \in BOOLEAN, cc \in BOOLEAN :
        /\ call.op = "none"
        /\ call' = [op |-> "extended_stats", connectivity |-> connectivity,
                    anc |-> anc, ecc |-> ecc, bc |-> bc, cc |-> cc]
        /\ ret' = extended_stats(G, connectivity, anc, ecc, bc, cc)
        /\ UNCHANGED G

NextExtended ==
    \/ Call_extended_stats
    \/ Return

SpecExtended == InitExtended /\ [][NextExtended]_vars

(***************************************************************************)
(* Properties of the report of extended_stats                              *)
(***************************************************************************)
UnconditionalKeys ==
    {"avg_neighbor_degree", "avg_neighbor_degree_avg",
     "avg_weighted_neighbor_degree", "avg_weighted_neighbor_degree_avg",
     "degree_centrality", "degree_centrality_avg",
     "clustering_coefficient", "clustering_coefficient_avg",
     "clustering_coefficient_weighted", "clustering_coefficient_weighted_avg",
     "pagerank", "pagerank_max_node", "pagerank_max", "pagerank_min_node",
     "pagerank_min"}

ConnectivityKeys == {"node_connectivity", "edge_connectivity"}
AncKeys == {"node_connectivity_avg"}
EccKeys == {"eccentricity", "diameter", "radius", "center", "periphery"}
CcKeys == {"closeness_centrality", "closeness_centrality_avg"}
BcKeys == {"betweenness_centrality", "betweenness_centrality_avg"}

\* the keys of a block are all in the report if its flag is set, none if not
Gated(keys, flag) ==
    IF flag THEN keys \subseteq DOMAIN ret.value
    ELSE keys \cap DOMAIN ret.value = {}

\* C11: extended_stats warns of its deprecation before anything else; a
\* report it returns holds every unconditional measure, and the keys of
\* each gated block exactly when that block's own flag is true, whatever
\* the other four flags are.
C11_ExtendedReportKeys ==
    call.op = "extended_stats" =>
      /\ Len(ret.msgs) >= 1
      /\ ret.msgs[1] = ExtendedStatsMsg
      /\ ret.status = "ok" =>
           /\ UnconditionalKeys \subseteq DOMAIN ret.value
           /\ Gated(ConnectivityKeys, call.connectivity)
           /\ Gated(AncKeys, call.anc)
           /\ Gated(EccKeys, call.ecc)
           /\ Gated(CcKeys, call.cc)
           /\ Gated(BcKeys, call.bc)
           /\ ret.value["pagerank_max"].fn = ret.value["pagerank"].fn

C11_Witness ==
    /\ call.op = "extended_stats"
    /\ ret.status = "ok"
    /\ call.cc /\ call.ecc
    /\ ~call.bc /\ ~call.connectivity /\ ~call.anc
    /\ G.edges # {}
    /\ CcKeys \cup EccKeys \subseteq DOMAIN ret.value
    /\ DOMAIN ret.value = UnconditionalKeys \cup CcKeys \cup EccKeys

====
